---- MODULE Spec2Model ----
(***************************************************************************)
(* A model of the Oculis frontend: the api.js fetch helpers, the           *)
(* AuthProvider (AuthContext.js), the router's PrivateRoute, DashboardPage *)
(* navigation, the BalanceSheetUploader and the ChatInterface (chat and    *)
(* upload handlers).  Every asynchronous handler is split at its await:    *)
(* one action for the part that runs up to the await, one action for the   *)
(* continuation that runs when the awaited request settles.                *)
(***************************************************************************)
EXTENDS Integers, Sequences, FiniteSets, TLC

VARIABLES
    token,          \* localStorage 'token'
    user,           \* AuthProvider state: user
    authLoading,    \* AuthProvider state: loading
    route,          \* react-router location
    navPending,     \* window.location.href was assigned, the page has not unloaded yet
    calls,          \* in-flight AuthProvider calls (loadUser, login, logout)
    activeNavItem,  \* DashboardPage state: activeNavItem
    companyId,      \* DashboardPage state: selectedCompanyId, the prop of the components
    bsu,            \* BalanceSheetUploader state
    bsuReq,         \* BalanceSheetUploader: the upload request in flight
    ci,             \* ChatInterface state
    ciReq,          \* ChatInterface: the upload request in flight
    chatImpl,       \* which ChatInterface source is built: sendMessage or handleSend
    chatReqs,       \* ChatInterface: the chat requests in flight
    nextReq,        \* number of chat requests issued so far
    lastUpload,     \* the response the last settled upload handler received
    lastChat,       \* the outcome the last settled chat handler received
    lastDone,       \* the AuthProvider call that finished last, and how
    cmImpl,         \* which CompanyManagement source is built: windowConfirm or confirmModal
    cm,             \* CompanyManagement state
    cmReqs,         \* CompanyManagement: the requests in flight
    store,          \* the backend's companies: the parent link of each company
    cmLast,         \* the Delete button clicked last and the answer to its confirmation
    fcImpl,         \* which FinancialCharts source is built: recharts, simpleChart or chartjs
    fc,             \* FinancialCharts state
    fcReqs,         \* FinancialCharts: the companies of the metrics requests in flight
    facts,          \* the backend's Fact Store: rows (company, year, metric, value)
    lastBatch       \* the batch of facts the Fact Store wrote last

authVars   == <<token, user, authLoading, route, navPending, calls, lastDone>>
dashVars   == <<activeNavItem, companyId>>
uploadVars == <<bsu, bsuReq, ciReq, lastUpload>>
chatVars   == <<chatImpl, chatReqs, nextReq, lastChat>>
cmVars     == <<cmImpl, cm, cmReqs, store, cmLast>>
fcVars     == <<fcImpl, fc, fcReqs, facts, lastBatch>>
vars == <<token, user, authLoading, route, navPending, calls, activeNavItem,
          companyId, bsu, bsuReq, ci, ciReq, chatImpl, chatReqs, nextReq,
          lastUpload, lastChat, lastDone, cmImpl, cm, cmReqs, store, cmLast,
          fcImpl, fc, fcReqs, facts, lastBatch>>

----------------------------------------------------------------------------
(* JavaScript values *)

\* null and undefined
NULL == "null"

\* the values JavaScript's || and ! treat as false, among strings and null
Falsy(x) == x \in {NULL, ""}

\* a || b
Or(a, b) == IF Falsy(a) THEN b ELSE a

\* obj.f, undefined when the property is absent
Get(obj, f) == IF f \in DOMAIN obj THEN obj[f] ELSE NULL

\* str.trim() over the inputs of the model: " " is the whitespace-only string
Trim(s) == IF s = " " THEN "" ELSE s

----------------------------------------------------------------------------
(* Bounds *)

MaxMessages == 1
MaxSends == 2
MaxCalls == 2

----------------------------------------------------------------------------
(* HTTP responses.  status 0 stands for a fetch() that rejects (network    *)
(* failure); json says whether the body parses as JSON.                    *)

Companies == {"c1", "c2"}
Files == {"f1"}

NetworkError == [status |-> 0, json |-> FALSE, body |-> [none |-> NULL]]

Resp(st, b) == [status |-> st, json |-> TRUE, body |-> b]

NotJson(st) == [status |-> st, json |-> FALSE, body |-> [none |-> NULL]]

\* response.ok
ok(resp) == resp.status >= 200 /\ resp.status <= 299

\* the warnings a response carries
WarningsOf(body) == IF "warnings" \in DOMAIN body THEN body.warnings ELSE <<>>

UploadResponses ==
    { NetworkError,
      Resp(200, [status |-> "success", processed_years |-> <<"2023">>, warnings |-> <<>>]),
      Resp(200, [status |-> "success", processed_years |-> <<"2023">>, warnings |-> <<"W1">>]),
      Resp(200, [status |-> "error", message |-> "M1"]),
      Resp(200, [status |-> "partial", message |-> "M1"]),
      Resp(200, [none |-> NULL]),
      NotJson(200),
      Resp(400, [status |-> "error", message |-> "M1"]),
      Resp(400, [msg |-> "M2"]),
      Resp(400, [error |-> "M3"]),
      NotJson(500),
      Resp(401, [msg |-> "Token has expired"]) }

----------------------------------------------------------------------------
(* api.js *)

\* new Error(message)
Error(m) == [message |-> m]

\* an authenticatedFetch without the 401 branch
authenticatedFetch_no401(resp) ==
    IF resp.status = 0
    THEN [kind |-> "reject", value |-> Error("Failed to fetch"),
          removeToken |-> FALSE, redirect |-> FALSE]
    ELSE IF ~ok(resp)
    THEN LET errorData == IF resp.json THEN resp.body
                          ELSE [message |-> "statusText"]
         IN  [kind |-> "reject",
              value |-> Error(Or(Or(Get(errorData, "msg"), Get(errorData, "error")),
                                 "Something went wrong")),
              removeToken |-> FALSE, redirect |-> FALSE]
    ELSE IF resp.json
    THEN [kind |-> "resolve", value |-> resp.body,
          removeToken |-> FALSE, redirect |-> FALSE]
    ELSE [kind |-> "reject", value |-> Error("Unexpected token in JSON"),
          removeToken |-> FALSE, redirect |-> FALSE]

\* authenticatedFetch: what the call does when the fetch settles with resp.
\* removeToken and redirect are the 401 branch's localStorage.removeItem and
\* window.location.href = '/login'.
authenticatedFetch(resp) ==
    IF resp.status = 0
    THEN [kind |-> "reject", value |-> Error("Failed to fetch"),
          removeToken |-> FALSE, redirect |-> FALSE]
    ELSE IF resp.status = 401
    THEN [kind |-> "reject",
          value |-> Error("Unauthorized: Session expired or invalid token."),
          removeToken |-> TRUE, redirect |-> TRUE]
    ELSE IF ~ok(resp)
    THEN LET errorData == IF resp.json THEN resp.body
                          ELSE [message |-> "statusText"]
         IN  [kind |-> "reject",
              value |-> Error(Or(Or(Get(errorData, "msg"), Get(errorData, "error")),
                                 "Something went wrong")),
              removeToken |-> FALSE, redirect |-> FALSE]
    ELSE IF resp.json
    THEN [kind |-> "resolve", value |-> resp.body,
          removeToken |-> FALSE, redirect |-> FALSE]
    ELSE [kind |-> "reject", value |-> Error("Unexpected token in JSON"),
          removeToken |-> FALSE, redirect |-> FALSE]

\* the token after an authenticatedFetch call settled
TokenAfter(r, tok) == IF r.removeToken THEN NULL ELSE tok

----------------------------------------------------------------------------
(* Component state after mounting *)

bsuInit == [file |-> NULL, status |-> [tmpl |-> "", args |-> <<>>], error |-> NULL,
            uploading |-> FALSE, success |-> FALSE]

ciInit == [messages |-> <<>>, input |-> "", loading |-> FALSE, error |-> NULL,
           file |-> NULL, uploading |-> FALSE, uploadError |-> NULL,
           uploadSuccess |-> FALSE]

NoReq == [active |-> FALSE, companyName |-> NULL]

\* formData after a reset; name and currency play no part in any request the
\* model looks at and stay at their reset values
emptyForm == [name |-> "", currency |-> "INR", parent_company_id |-> ""]

\* a company list without companies: "absent" marks an id no company has
noCompanies == [c \in Companies |-> "absent"]

\* currentCompany while no company is being edited (null)
NoCompany == [id |-> NULL, parent_company_id |-> NULL]

\* CompanyManagement's useState values
cmInit == [companies |-> noCompanies, loading |-> TRUE, error |-> NULL,
           showAddModal |-> FALSE, showEditModal |-> FALSE,
           showConfirmDeleteModal |-> FALSE, companyToDelete |-> NULL,
           currentCompany |-> NoCompany, formData |-> emptyForm]

NoDelete == [clicked |-> NULL, answer |-> "none"]

\* metrics while it is null
NoMetrics == [none |-> NULL]

\* FinancialCharts' useState values; loading starts true in the chartjs source
fcInit == [metrics |-> NoMetrics, loading |-> (fcImpl = "chartjs"), error |-> NULL]

NoBatch == [company |-> NULL, cells |-> {}]

\* the charts have not fetched anything and the Fact Store is empty
FinancialChartsIdle ==
    /\ fcImpl = "recharts"
    /\ fc = fcInit
    /\ fcReqs = <<>>
    /\ facts = {}
    /\ lastBatch = NoBatch

\* the CompanyManagement screen has not been opened
CompanyManagementClosed ==
    /\ cmImpl = "windowConfirm"
    /\ cm = cmInit
    /\ cmReqs = <<>>
    /\ store = noCompanies
    /\ cmLast = NoDelete

NoUpload == [comp |-> "none", resp |-> NetworkError]

\* a transcript entry; text is the template of the string and the values
\* interpolated into it
Msg(sender, type, tmpl, args) ==
    [sender |-> sender, type |-> type, tmpl |-> tmpl, args |-> args]

\* companyName of the selected company (DashboardPage passes both props from
\* the same company record)
NameOf(c) == c

----------------------------------------------------------------------------
(* Users, tokens and the state of the application after loading a page *)

Users == {"admin", "ceo", "analyst", "guest"}

\* user.role; "auditor" is a role navItems does not know
RoleOf(u) ==
    CASE u = "admin" -> "group_admin"
      [] u = "ceo" -> "ceo"
      [] u = "analyst" -> "analyst"
      [] OTHER -> "auditor"

\* the access token the backend issues to a user, and the user it identifies
TokenOf(u) == "jwt-" \o u

Tokens == {TokenOf(u) : u \in Users}

UserOf(t) == CHOOSE u \in Users : TokenOf(u) = t

\* the result of a call that has not settled
Pending == [kind |-> "pending", value |-> [none |-> NULL],
            removeToken |-> FALSE, redirect |-> FALSE]

\* an in-flight call: the function that awaits, its argument, and once the
\* fetch settled the response and what the api function made of it
Call(kind, arg) == [kind |-> kind, arg |-> arg, resp |-> NetworkError,
                    result |-> Pending]

Idle == Call("idle", NULL)

noCalls == [i \in 1..MaxCalls |-> Idle]

\* the lowest free slot for a new in-flight call
FreeSlot == CHOOSE i \in 1..MaxCalls :
                /\ calls[i] = Idle
                /\ \A j \in 1..(i - 1) : calls[j] # Idle

HasFreeSlot == \E i \in 1..MaxCalls : calls[i] = Idle

\* a route that renders its children for everybody
PrivateRoute_open(u) == "children"

\* PrivateRoute: the element rendered at '/'
PrivateRoute(u) == IF u # NULL THEN "children" ELSE "Navigate"

\* the location after the router rendered: <Navigate to="/login" /> replaces
\* '/' as soon as PrivateRoute renders it
Routed(r, u) ==
    IF r = "/" /\ PrivateRoute(u) = "Navigate" THEN "/login" ELSE r

\* DashboardPage is mounted (PrivateRoute rendered its children)
DashboardMounted == route = "/" /\ PrivateRoute(user) = "children"

\* the dashboard section with the uploader, the chat and the charts is rendered
ComponentsMounted ==
    /\ DashboardMounted
    /\ ~authLoading
    /\ activeNavItem = "dashboard"
    /\ companyId # NULL

----------------------------------------------------------------------------
(* BalanceSheetUploader *)

\* onChange of the file input
BalanceSheetUploader_setFile(f) ==
    /\ ComponentsMounted
    /\ bsu' = [bsu EXCEPT !.file = f]
    /\ UNCHANGED <<fcVars, cmVars, authVars, dashVars, bsuReq, ci, ciReq, chatVars, lastUpload>>

\* handleFileUpload up to the await; the submit button is disabled unless
\* file && !uploading && companyId
BalanceSheetUploader_handleFileUpload ==
    /\ ComponentsMounted
    /\ bsu.file # NULL /\ ~bsu.uploading
    /\ bsu' = [bsu EXCEPT !.uploading = TRUE, !.error = NULL, !.success = FALSE,
                          !.status = [tmpl |-> "Processing...", args |-> <<>>]]
    /\ bsuReq' = [active |-> TRUE, companyName |-> NameOf(companyId)]
    /\ UNCHANGED <<fcVars, cmVars, authVars, dashVars, ci, ciReq, chatVars, lastUpload>>

\* a handler that takes every status but "error" for a success
IsSuccess_notError(body) == Get(body, "status") # "error"

\* response.status === "success"
IsSuccess(body) == Get(body, "status") = "success"

\* the state handleFileUpload leaves when apiUploadBalanceSheet settled with r
BalanceSheetUploader_afterUpload(s, r, companyName) ==
    LET done == [s EXCEPT !.uploading = FALSE] IN
    IF r.kind = "resolve" /\ IsSuccess(r.value)
    THEN [done EXCEPT !.status = [tmpl |-> "Uploaded and processed financial data for",
                                  args |-> <<companyName>>],
                      !.success = TRUE,
                      !.file = NULL]
    ELSE LET err == IF r.kind = "resolve"
                    THEN Error(Or(Get(r.value, "message"), "Upload failed."))
                    ELSE r.value
         IN  [done EXCEPT !.error = Or(err.message, "Upload failed.")]

\* handleFileUpload from the await on
BalanceSheetUploader_uploadSettles(resp) ==
    /\ bsuReq.active
    /\ LET r == authenticatedFetch(resp) IN
        /\ bsu' = BalanceSheetUploader_afterUpload(bsu, r, bsuReq.companyName)
        /\ token' = TokenAfter(r, token)
        /\ navPending' = (navPending \/ r.redirect)
    /\ bsuReq' = NoReq
    /\ lastUpload' = [comp |-> "bsu", resp |-> resp]
    /\ UNCHANGED <<fcVars, cmVars, user, authLoading, route, calls, lastDone, dashVars, ci, ciReq, chatVars>>

----------------------------------------------------------------------------
(* ChatInterface: the upload form (the source with handleSend) *)

\* onChange of the file input
ChatInterface_setFile(f) ==
    /\ ComponentsMounted
    /\ chatImpl = "handleSend"
    /\ ci' = [ci EXCEPT !.file = f]
    /\ UNCHANGED <<fcVars, cmVars, authVars, dashVars, uploadVars, chatVars>>

\* handleFileUpload up to the await: returns early unless
\* file && companyId && !uploading
ChatInterface_handleFileUpload ==
    /\ ComponentsMounted
    /\ chatImpl = "handleSend"
    /\ ci.file # NULL /\ ~ci.uploading
    /\ Len(ci.messages) < MaxMessages
    /\ ci' = [ci EXCEPT !.uploading = TRUE, !.uploadError = NULL,
                        !.uploadSuccess = FALSE]
    /\ ciReq' = [active |-> TRUE, companyName |-> NameOf(companyId)]
    /\ UNCHANGED <<fcVars, cmVars, authVars, dashVars, bsu, bsuReq, chatVars, lastUpload>>

\* the state handleFileUpload leaves when apiUploadBalanceSheet settled with r;
\* Object.keys(response.processed_years) throws when the property is missing
ChatInterface_afterUpload(s, r, companyName) ==
    LET done == [s EXCEPT !.uploading = FALSE]
        failed(errorMessage) ==
            [done EXCEPT !.uploadError = errorMessage,
                         !.messages = Append(@, Msg("system", "error",
                                          "File upload failed:", <<errorMessage>>))]
    IN
    IF r.kind = "resolve" /\ IsSuccess(r.value)
    THEN IF "processed_years" \in DOMAIN r.value
         THEN [done EXCEPT !.uploadSuccess = TRUE,
                           !.file = NULL,
                           !.messages = Append(@, Msg("system", "success",
                               "Successfully uploaded and processed financial data for",
                               <<Or(companyName, "the company")>>
                                   \o r.value.processed_years))]
         ELSE failed(Or("Cannot convert undefined or null to object",
                        "Failed to upload financial data."))
    ELSE IF r.kind = "resolve"
    THEN [done EXCEPT !.uploadError = Or(Get(r.value, "message"),
                                         "Failed to process the uploaded file."),
                      !.messages = Append(@, Msg("system", "error",
                                       "File upload failed:",
                                       <<Or(Get(r.value, "message"),
                                            "Could not process file.")>>))]
    ELSE failed(Or(r.value.message, "Failed to upload financial data."))

\* handleFileUpload from the await on
ChatInterface_uploadSettles(resp) ==
    /\ ciReq.active
    /\ LET r == authenticatedFetch(resp) IN
        /\ ci' = ChatInterface_afterUpload(ci, r, ciReq.companyName)
        /\ token' = TokenAfter(r, token)
        /\ navPending' = (navPending \/ r.redirect)
    /\ ciReq' = NoReq
    /\ lastUpload' = [comp |-> "ci", resp |-> resp]
    /\ UNCHANGED <<fcVars, cmVars, user, authLoading, route, calls, lastDone, dashVars, bsu, bsuReq, chatVars>>

----------------------------------------------------------------------------
(* DashboardPage: company selection, and the page reload *)

\* an effect that keeps the transcript
ChatInterface_companyIdEffect_keepsMessages(s) ==
    IF chatImpl = "sendMessage"
    THEN [s EXCEPT !.input = "", !.loading = FALSE]
    ELSE [s EXCEPT !.file = NULL, !.uploadError = NULL, !.uploadSuccess = FALSE]

\* ChatInterface's effect on [companyId]
ChatInterface_companyIdEffect(s) ==
    IF chatImpl = "sendMessage"
    THEN [s EXCEPT !.messages = <<>>, !.input = "", !.loading = FALSE]
    ELSE [s EXCEPT !.messages = <<>>, !.file = NULL, !.uploadError = NULL,
                   !.uploadSuccess = FALSE]

\* handleCompanyChange to another company, and ChatInterface's effect on the
\* new prop (the effect of FinancialCharts is FinancialCharts_companyIdEffect)
handleCompanyChange(id) ==
    /\ ComponentsMounted
    /\ id # companyId
    /\ companyId' = id
    /\ ci' = ChatInterface_companyIdEffect(ci)
    /\ UNCHANGED <<cmVars, authVars, activeNavItem, uploadVars, chatVars>>

\* nothing finished since the page was loaded at location r
MountAt(r) == [kind |-> "mount", outcome |-> r]

\* nothing finished since the page was loaded at /login
Mount == MountAt("/login")

\* AuthProvider after mounting: loadUser ran up to its await, or to its end
\* when no token is stored
AuthStart(tok) ==
    [user |-> NULL,
     authLoading |-> (tok # NULL),
     calls |-> IF tok # NULL
               THEN [noCalls EXCEPT ![1] = Call("loadUser", tok)]
               ELSE noCalls]

\* the browser follows window.location.href = '/login': the page unloads with
\* everything in flight and the application starts again
PageReload ==
    /\ navPending
    /\ navPending' = FALSE
    /\ route' = Routed("/login", NULL)
    /\ user' = AuthStart(token).user
    /\ authLoading' = AuthStart(token).authLoading
    /\ calls' = AuthStart(token).calls
    /\ activeNavItem' = "dashboard"
    /\ companyId' = NULL
    /\ bsu' = bsuInit
    /\ ci' = ciInit
    /\ bsuReq' = NoReq
    /\ ciReq' = NoReq
    /\ chatReqs' = {}
    /\ lastDone' = Mount
    /\ cm' = cmInit
    /\ cmReqs' = <<>>
    /\ fc' = fcInit
    /\ fcReqs' = <<>>
    /\ UNCHANGED <<fcImpl, facts, lastBatch, token, chatImpl, nextReq, lastUpload, lastChat, cmImpl, store,
                   cmLast>>

----------------------------------------------------------------------------
(* The upload handlers of a signed-in user on the dashboard *)

NoChat == [id |-> 0, resp |-> NetworkError]

SignedIn(u) ==
    /\ token = TokenOf(u)
    /\ user = u
    /\ authLoading = FALSE
    /\ route = "/"
    /\ navPending = FALSE
    /\ calls = noCalls
    /\ activeNavItem = "dashboard"
    /\ companyId \in Companies
    /\ bsu = bsuInit
    /\ bsuReq = NoReq
    /\ ci = ciInit
    /\ ciReq = NoReq
    /\ chatReqs = {}
    /\ nextReq = 0
    /\ lastUpload = NoUpload
    /\ lastChat = NoChat
    /\ lastDone = [kind |-> "login", outcome |-> "resolve"]
    /\ CompanyManagementClosed
    /\ FinancialChartsIdle

InitUpload ==
    /\ chatImpl = "handleSend"
    /\ SignedIn("admin")

NextUpload ==
    \/ \E f \in Files \cup {NULL} : BalanceSheetUploader_setFile(f)
    \/ BalanceSheetUploader_handleFileUpload
    \/ \E resp \in UploadResponses : BalanceSheetUploader_uploadSettles(resp)
    \/ \E f \in Files \cup {NULL} : ChatInterface_setFile(f)
    \/ ChatInterface_handleFileUpload
    \/ \E resp \in UploadResponses : ChatInterface_uploadSettles(resp)
    \/ \E id \in Companies : handleCompanyChange(id) /\ UNCHANGED fcVars
    \/ PageReload

SpecUpload == InitUpload /\ [][NextUpload]_vars

----------------------------------------------------------------------------
(* Upload claims *)

Range(seq) == {seq[i] : i \in DOMAIN seq}

\* the request of a handler settled in this step (a page reload drops the
\* request without running the handler)
Reloading == navPending /\ ~navPending'
BsuSettles == bsuReq.active /\ ~bsuReq'.active /\ ~Reloading
CiUploadSettles == ciReq.active /\ ~ciReq'.active /\ ~Reloading

\* the request was answered, and the answer's status field is "success"
SaysSuccess(resp) ==
    /\ ok(resp) /\ resp.json
    /\ "status" \in DOMAIN resp.body
    /\ resp.body.status = "success"

\* the request was answered with a body {status: "error", message}
SaysError(resp) ==
    /\ resp.status # 0 /\ resp.json
    /\ DOMAIN resp.body = {"status", "message"}
    /\ resp.body.status = "error"

\* the strings each uploader has on screen
BsuShown(s) ==
    (IF s.success THEN {s.status.tmpl} \cup Range(s.status.args) ELSE {})
        \cup (IF s.error # NULL THEN {s.error} ELSE {})

CiShown(s) ==
    UNION {Range(s.messages[i].args) : i \in DOMAIN s.messages}
        \cup (IF s.uploadError # NULL THEN {s.uploadError} ELSE {})
        \cup (IF s.uploadSuccess THEN {"Upload successful!"} ELSE {})

C2_WarningsPresented ==
    [][ /\ (BsuSettles /\ SaysSuccess(lastUpload'.resp)) =>
                Range(WarningsOf(lastUpload'.resp.body)) \subseteq BsuShown(bsu')
        /\ (CiUploadSettles /\ SaysSuccess(lastUpload'.resp)) =>
                Range(WarningsOf(lastUpload'.resp.body)) \subseteq CiShown(ci') ]_vars

\* C3: when an upload is answered with {status: "error", message}, under an ok
\* or a non-ok HTTP status, the error BalanceSheetUploader shows is that message.
C3_ErrorIsMessage ==
    [][ (BsuSettles /\ SaysError(lastUpload'.resp)) =>
            bsu'.error = lastUpload'.resp.body.message ]_vars

----------------------------------------------------------------------------
(* ChatInterface: the chat.  The source with sendMessage calls apiChat, the  *)
(* source with handleSend calls apiChatWithAI (authenticatedFetch).          *)

Inputs == {" ", "q1"}

ChatResponses ==
    { NetworkError,
      Resp(200, [answer |-> "A1", response |-> "A1"]),
      NotJson(200),
      Resp(500, [error |-> "E1"]),
      Resp(401, [msg |-> "Token has expired"]) }

\* apiChat: what the call does when its fetch settles with resp
apiChat(resp) ==
    IF resp.status = 0
    THEN [kind |-> "reject", value |-> Error("Failed to fetch"),
          removeToken |-> FALSE, redirect |-> FALSE]
    ELSE IF ~ok(resp)
    THEN [kind |-> "reject", value |-> Error("Chat failed"),
          removeToken |-> FALSE, redirect |-> FALSE]
    ELSE IF resp.json
    THEN [kind |-> "resolve", value |-> resp.body,
          removeToken |-> FALSE, redirect |-> FALSE]
    ELSE [kind |-> "reject", value |-> Error("Unexpected token in JSON"),
          removeToken |-> FALSE, redirect |-> FALSE]

\* the chat call of the source that is built
ChatCall(resp) ==
    IF chatImpl = "sendMessage" THEN apiChat(resp) ELSE authenticatedFetch(resp)

\* onChange of the chat input, which is disabled while loading
ChatInterface_setInput(v) ==
    /\ ComponentsMounted
    /\ ~ci.loading
    /\ v # ci.input
    /\ ci' = [ci EXCEPT !.input = v]
    /\ UNCHANGED <<fcVars, cmVars, authVars, dashVars, uploadVars, chatVars>>

\* sendMessage / handleSend up to the await.  The send button and the input
\* are disabled while loading; both handlers return on a blank input.
ChatInterface_send ==
    /\ ComponentsMounted
    /\ ~ci.loading
    /\ Trim(ci.input) # ""
    /\ nextReq < MaxSends
    /\ ci' = [ci EXCEPT
                !.messages = Append(@, Msg("user", NULL, "", <<ci.input>>)),
                !.input = "",
                !.loading = TRUE,
                !.error = IF chatImpl = "handleSend" THEN NULL ELSE @]
    /\ nextReq' = nextReq + 1
    /\ chatReqs' = chatReqs \cup
                    {[id |-> nextReq + 1, query |-> ci.input, company |-> companyId]}
    /\ UNCHANGED <<fcVars, cmVars, authVars, dashVars, uploadVars, chatImpl, lastChat>>

\* a handler that never calls setLoading(false)
ChatInterface_finally_missing(s) == s

\* the finally block of sendMessage / handleSend
ChatInterface_finally(s) == [s EXCEPT !.loading = FALSE]

\* the state sendMessage / handleSend leaves when the chat call settled with r
ChatInterface_afterChat(s, r) ==
    LET done == ChatInterface_finally(s) IN
    IF chatImpl = "sendMessage"
    THEN IF r.kind = "resolve"
         THEN [done EXCEPT !.messages = Append(@,
                    Msg("assistant", NULL, "", <<Get(r.value, "answer")>>))]
         ELSE [done EXCEPT !.messages = Append(@,
                    Msg("system", NULL, "Error:",
                        <<Or(r.value.message, "Failed to get response.")>>))]
    ELSE IF r.kind = "resolve"
         THEN [done EXCEPT !.messages = Append(@,
                    Msg("ai", NULL, "", <<Get(r.value, "response")>>))]
         ELSE LET errorMessage ==
                    Or(r.value.message,
                       "Failed to get response from AI. Please try again.")
              IN  [done EXCEPT !.error = errorMessage,
                               !.messages = Append(@,
                                    Msg("ai", "error", "Oops!", <<errorMessage>>))]

\* sendMessage / handleSend from the await on
ChatInterface_chatSettles(q, resp) ==
    /\ q \in chatReqs
    /\ LET r == ChatCall(resp) IN
        /\ ci' = ChatInterface_afterChat(ci, r)
        /\ token' = TokenAfter(r, token)
        /\ navPending' = (navPending \/ r.redirect)
    /\ chatReqs' = chatReqs \ {q}
    /\ lastChat' = [id |-> q.id, resp |-> resp]
    /\ UNCHANGED <<fcVars, cmVars, user, authLoading, route, calls, lastDone, dashVars, uploadVars,
                   chatImpl, nextReq>>

\* handleClearChat (the source with handleSend)
ChatInterface_handleClearChat ==
    /\ ComponentsMounted
    /\ chatImpl = "handleSend"
    /\ ci.messages # <<Msg("system", "info", "Chat history cleared.", <<>>)>>
    /\ ci' = [ci EXCEPT !.messages =
                <<Msg("system", "info", "Chat history cleared.", <<>>)>>]
    /\ UNCHANGED <<fcVars, cmVars, authVars, dashVars, uploadVars, chatVars>>

InitChat ==
    /\ chatImpl \in {"sendMessage", "handleSend"}
    /\ SignedIn("admin")

SettleRequest(id) ==
    \E q \in chatReqs : \E resp \in ChatResponses :
        q.id = id /\ ChatInterface_chatSettles(q, resp)

NextChat ==
    \/ \E v \in Inputs \cup {""} : ChatInterface_setInput(v)
    \/ ChatInterface_send
    \/ \E id \in 1..MaxSends : SettleRequest(id)
    \/ ChatInterface_handleClearChat
    \/ \E id \in Companies : handleCompanyChange(id) /\ UNCHANGED fcVars
    \/ PageReload

SpecChat == InitChat /\ [][NextChat]_vars

\* every request a browser issues settles: with a response or with a failure
SpecChatFair == SpecChat /\ \A id \in 1..MaxSends : WF_vars(SettleRequest(id))

----------------------------------------------------------------------------
(* Chat claims *)

\* a chat handler resumed in this step with the outcome of its request
ChatSettles == chatReqs' # chatReqs /\ chatReqs' \subseteq chatReqs /\ ~Reloading

\* a chat request was issued in this step
ChatSends == nextReq' = nextReq + 1

\* the chat API call rejects: the fetch failed, the status is not ok or the
\* body is not JSON
CallRejects(resp) == ~(ok(resp) /\ resp.json)

\* the transcript grew by exactly one entry, which is an error message, and
\* kept every earlier entry
OneErrorAppended(before, after) ==
    /\ Len(after) = Len(before) + 1
    /\ SubSeq(after, 1, Len(before)) = before
    /\ after[Len(after)].sender \in {"system", "ai"}
    /\ after[Len(after)].tmpl \in {"Error:", "Oops!"}

\* the send controls are enabled again
CanSendAgain == ComponentsMounted /\ ~ci.loading

\* C4 as stated: when the chat API call rejects, exactly one error message is
\* appended, the earlier messages stay, loading is false, user and token are
\* unchanged and a further message can be sent.
C4_Original ==
    [][ (ChatSettles /\ CallRejects(lastChat'.resp)) =>
            /\ OneErrorAppended(ci.messages, ci'.messages)
            /\ ~ci'.loading
            /\ user' = user /\ token' = token
            /\ CanSendAgain' ]_vars

\* the rejection is authenticatedFetch's 401 branch
SessionExpired(resp) == chatImpl = "handleSend" /\ resp.status = 401

\* C4 amended: the same for every rejection but authenticatedFetch's 401; on
\* that one the error message is appended and loading is false as well, but
\* the token is removed and the browser is sent to /login.
C4_RecoverableChatError ==
    [][ (ChatSettles /\ CallRejects(lastChat'.resp)) =>
            /\ OneErrorAppended(ci.messages, ci'.messages)
            /\ ~ci'.loading
            /\ user' = user
            /\ IF SessionExpired(lastChat'.resp)
               THEN token' = NULL /\ navPending'
               ELSE token' = token /\ CanSendAgain' ]_vars

\* a chat call was rejected after an earlier exchange, the error message
\* follows the earlier messages and the session is intact
C4_Witness ==
    /\ lastChat.id = 2 /\ CallRejects(lastChat.resp)
    /\ ~SessionExpired(lastChat.resp)
    /\ Len(ci.messages) = 4
    /\ ci.messages[4].tmpl \in {"Error:", "Oops!"}
    /\ ~ci.loading /\ token = TokenOf(user) /\ chatReqs = {}

\* the transcript grew by exactly one entry, which is a reply
OneReplyAppended(before, after) ==
    /\ Len(after) = Len(before) + 1
    /\ SubSeq(after, 1, Len(before)) = before
    /\ after[Len(after)].sender \in {"assistant", "system", "ai"}

\* C5: a send with a non-blank input and a selected company appends the
\* user's message first; when the call settles exactly one reply (assistant
\* text or error message) is appended and loading is false; and every request
\* gets its reply, given that the call settles (the call of a request that is
\* in flight when the page unloads is aborted and never settles).
C5_EveryRequestAnswered ==
    /\ [][ ChatSends =>
            /\ Trim(ci.input) # "" /\ companyId # NULL
            /\ ci'.messages = Append(ci.messages,
                                     Msg("user", NULL, "", <<ci.input>>)) ]_vars
    /\ [][ ChatSettles =>
            /\ OneReplyAppended(ci.messages, ci'.messages)
            /\ ~ci'.loading ]_vars
    /\ \A id \in 1..MaxSends :
            (\E q \in chatReqs : q.id = id)
                ~> (lastChat.id = id \/ ~ComponentsMounted)

\* the second request was answered: its reply is the last entry of a
\* transcript that holds both exchanges
C5_Witness ==
    /\ lastChat.id = 2 /\ chatReqs = {}
    /\ Len(ci.messages) = 4
    /\ ci.messages[3].sender = "user"
    /\ ci.messages[4].sender \in {"assistant", "ai"}
    /\ ~ci.loading

----------------------------------------------------------------------------
(* AuthProvider, LoginPage and DashboardPage.  An authenticatedFetch call    *)
(* settles in one step (its own code after the await) and the function that  *)
(* awaits it resumes in the next: nothing else runs between the two.         *)

SessionExpiredResponse == Resp(401, [msg |-> "Token has expired"])

\* POST /login for the credentials of user cred, or for wrong credentials
LoginResponses(cred) ==
    IF cred \in Users
    THEN {Resp(200, [access_token |-> TokenOf(cred)]), NetworkError}
    ELSE {Resp(401, [msg |-> "Bad username or password"])}

\* the answers to the authenticated requests: GET /current_user with token t,
\* POST /logout, GET /companies
ApiResponses(c) ==
    CASE c.kind \in {"loadUser", "login.loadUser"} ->
            (IF c.arg \in Tokens THEN {Resp(200, [username |-> UserOf(c.arg)])} ELSE {})
                \cup {SessionExpiredResponse, NetworkError}
      [] c.kind = "logout" ->
            {Resp(200, [msg |-> "Logged out"]), SessionExpiredResponse,
             Resp(500, [error |-> "E1"])}
      [] c.kind = "fetchCompanies" ->
            {Resp(200, [companies |-> <<"c1", "c2">>]), NotJson(200),
             SessionExpiredResponse, Resp(500, [error |-> "E1"])}
      [] OTHER -> {}

\* no call has settled without its caller having resumed
NoDelivery == \A i \in 1..MaxCalls : calls[i].result = Pending

Mounted(r, u) == r = "/" /\ PrivateRoute(u) = "children"

\* the requests of an unmounted DashboardPage resume without any effect
Orphaned(cs) ==
    [i \in 1..MaxCalls |->
        IF cs[i].kind = "fetchCompanies" THEN [cs[i] EXCEPT !.arg = "unmounted"]
        ELSE cs[i]]

\* the state after a handler set token, user and loading, navigated to r and
\* left cs in flight: the router renders, PrivateRoute redirects, and a
\* DashboardPage that is mounted anew starts from its initial state
Render(tok, u, l, r, cs) ==
    /\ token' = tok
    /\ user' = u
    /\ authLoading' = l
    /\ route' = Routed(r, u)
    /\ IF Mounted(route, user) /\ Mounted(Routed(r, u), u)
       THEN calls' = cs /\ UNCHANGED dashVars
       ELSE calls' = Orphaned(cs) /\ activeNavItem' = "dashboard" /\ companyId' = NULL

\* LoginPage.handleSubmit up to the await of apiLogin inside login; the
\* button is disabled while the LoginPage is loading
LoginPage_handleSubmit(cred) ==
    /\ route = "/login" /\ NoDelivery /\ HasFreeSlot
    /\ \A i \in 1..MaxCalls : calls[i].kind \notin {"login", "login.loadUser"}
    /\ calls' = [calls EXCEPT ![FreeSlot] = Call("login", cred)]
    /\ UNCHANGED <<fcVars, cmVars, token, user, authLoading, route, navPending, lastDone,
                   dashVars, uploadVars, ci, chatVars>>

\* login from the await of apiLogin on: apiLogin throws unless the response
\* is ok; login stores the token and calls loadUser, which runs up to the
\* await of apiGetCurrentUser
AuthProvider_login_afterApiLogin(i, resp) ==
    /\ calls[i].kind = "login" /\ NoDelivery
    /\ resp \in LoginResponses(calls[i].arg)
    /\ IF ok(resp) /\ resp.json
       THEN /\ Render(resp.body.access_token, user, authLoading, route,
                      [calls EXCEPT ![i] = Call("login.loadUser",
                                                resp.body.access_token)])
            /\ UNCHANGED lastDone
       ELSE /\ Render(token, NULL, authLoading, route,
                      [calls EXCEPT ![i] = Idle])
            /\ lastDone' = [kind |-> "login", outcome |-> "reject"]
    /\ UNCHANGED <<fcVars, cmVars, navPending, uploadVars, ci, chatVars>>

\* authenticatedFetch from its await on, for the call in slot i
authenticatedFetch_settles(i, resp) ==
    /\ calls[i].kind \in {"loadUser", "login.loadUser", "logout", "fetchCompanies"}
    /\ NoDelivery
    /\ resp \in ApiResponses(calls[i])
    /\ LET r == authenticatedFetch(resp) IN
        /\ calls' = [calls EXCEPT ![i].resp = resp, ![i].result = r]
        /\ token' = TokenAfter(r, token)
        /\ navPending' = (navPending \/ r.redirect)
    /\ UNCHANGED <<fcVars, cmVars, user, authLoading, route, lastDone, dashVars, uploadVars,
                   ci, chatVars>>

\* a loadUser whose catch block leaves the invalid token in localStorage
loadUser_after_keepsToken(r, tok, u) ==
    IF r.kind = "resolve"
    THEN [token |-> tok, user |-> Get(r.value, "username")]
    ELSE [token |-> tok, user |-> NULL]

\* token and user after loadUser resumed with r
loadUser_after(r, tok, u) ==
    IF r.kind = "resolve"
    THEN [token |-> tok, user |-> Get(r.value, "username")]
    ELSE [token |-> NULL, user |-> NULL]

\* loadUser (called by the mount effect) from its await on
AuthProvider_loadUser_resumes(i) ==
    /\ calls[i].kind = "loadUser" /\ calls[i].result # Pending
    /\ LET a == loadUser_after(calls[i].result, token, user) IN
        Render(a.token, a.user, FALSE, route, [calls EXCEPT ![i] = Idle])
    /\ lastDone' = [kind |-> "loadUser", outcome |-> calls[i].result.kind]
    /\ UNCHANGED <<fcVars, cmVars, navPending, uploadVars, ci, chatVars>>

\* login from the await of loadUser on: loadUser finishes, login navigates to
\* '/' and returns true
AuthProvider_login_resumes(i) ==
    /\ calls[i].kind = "login.loadUser" /\ calls[i].result # Pending
    /\ LET a == loadUser_after(calls[i].result, token, user) IN
        Render(a.token, a.user, FALSE, "/", [calls EXCEPT ![i] = Idle])
    /\ lastDone' = [kind |-> "login", outcome |-> "true"]
    /\ UNCHANGED <<fcVars, cmVars, navPending, uploadVars, ci, chatVars>>

\* the Logout button of DashboardPage: logout up to the await of apiLogout
AuthProvider_logout ==
    /\ DashboardMounted /\ ~authLoading /\ NoDelivery /\ HasFreeSlot
    /\ calls' = [calls EXCEPT ![FreeSlot] = Call("logout", token)]
    /\ UNCHANGED <<fcVars, cmVars, token, user, authLoading, route, navPending, lastDone,
                   dashVars, uploadVars, ci, chatVars>>

\* a logout whose catch block only logs the error
logout_after_catchOnlyLogs(r, tok, u, rt) ==
    IF r.kind = "resolve"
    THEN [token |-> NULL, user |-> NULL, route |-> "/login"]
    ELSE [token |-> tok, user |-> u, route |-> rt]

\* token, user and route after logout resumed with r: the try block and the
\* catch block do the same
logout_after(r, tok, u, rt) ==
    IF r.kind = "resolve"
    THEN [token |-> NULL, user |-> NULL, route |-> "/login"]
    ELSE [token |-> NULL, user |-> NULL, route |-> "/login"]

\* logout from its await on
AuthProvider_logout_resumes(i) ==
    /\ calls[i].kind = "logout" /\ calls[i].result # Pending
    /\ LET a == logout_after(calls[i].result, token, user, route) IN
        Render(a.token, a.user, authLoading, a.route, [calls EXCEPT ![i] = Idle])
    /\ lastDone' = [kind |-> "logout", outcome |-> calls[i].result.kind]
    /\ UNCHANGED <<fcVars, cmVars, navPending, uploadVars, ci, chatVars>>

\* DashboardPage.fetchCompanies up to its await; the effect runs it when the
\* page mounts and whenever user changes
DashboardPage_fetchCompanies ==
    /\ DashboardMounted /\ ~authLoading /\ NoDelivery /\ HasFreeSlot
    /\ calls' = [calls EXCEPT ![FreeSlot] = Call("fetchCompanies", "mounted")]
    /\ UNCHANGED <<fcVars, cmVars, token, user, authLoading, route, navPending, lastDone,
                   dashVars, uploadVars, ci, chatVars>>

\* fetchCompanies from its await on: the first company is selected
DashboardPage_fetchCompanies_resumes(i) ==
    /\ calls[i].kind = "fetchCompanies" /\ calls[i].result # Pending
    /\ calls' = [calls EXCEPT ![i] = Idle]
    /\ IF calls[i].arg = "mounted" /\ calls[i].result.kind = "resolve"
       THEN companyId' = calls[i].result.value.companies[1]
       ELSE UNCHANGED companyId
    /\ lastDone' = [kind |-> "fetchCompanies", outcome |-> calls[i].result.kind]
    /\ UNCHANGED <<fcVars, cmVars, token, user, authLoading, route, navPending, activeNavItem,
                   uploadVars, ci, chatVars>>

\* navItems[user.role] || []
navItems(role) ==
    CASE role = "group_admin" -> {"dashboard", "user-management", "company-management"}
      [] role \in {"ceo", "analyst"} -> {"dashboard"}
      [] OTHER -> {}

\* the screen DashboardPage renders in <main>
MainContent(item, role) ==
    CASE item = "dashboard" -> "Dashboard"
      [] item = "user-management" /\ role = "group_admin" -> "UserManagement"
      [] item = "company-management" /\ role = "group_admin" -> "CompanyManagement"
      [] OTHER -> "nothing"

\* handleNavItemClick, from one of the buttons the sidebar renders
handleNavItemClick(itemId) ==
    /\ DashboardMounted /\ ~authLoading /\ NoDelivery
    /\ itemId \in navItems(RoleOf(user))
    /\ itemId # activeNavItem
    /\ activeNavItem' = itemId
    /\ UNCHANGED <<fcVars, cmVars, authVars, companyId, uploadVars, ci, chatVars>>

\* the application, loaded with whatever token an earlier session stored
InitAuth ==
    /\ token \in Tokens \cup {NULL}
    /\ user = AuthStart(token).user
    /\ authLoading = AuthStart(token).authLoading
    /\ calls = AuthStart(token).calls
    /\ \E r \in {"/", "/login"} : route = Routed(r, NULL) /\ lastDone = MountAt(r)
    /\ navPending = FALSE
    /\ activeNavItem = "dashboard"
    /\ companyId = NULL
    /\ bsu = bsuInit /\ bsuReq = NoReq
    /\ ci = ciInit /\ ciReq = NoReq
    /\ chatImpl = "handleSend" /\ chatReqs = {} /\ nextReq = 0
    /\ lastUpload = NoUpload /\ lastChat = NoChat
    /\ CompanyManagementClosed
    /\ FinancialChartsIdle

Settle(i) ==
    \E resp \in {SessionExpiredResponse, NetworkError, NotJson(200),
                 Resp(500, [error |-> "E1"]), Resp(200, [msg |-> "Logged out"]),
                 Resp(200, [companies |-> <<"c1", "c2">>])}
              \cup {Resp(200, [username |-> u]) : u \in Users} :
        authenticatedFetch_settles(i, resp)

Resume(i) ==
    \/ AuthProvider_loadUser_resumes(i)
    \/ AuthProvider_login_resumes(i)
    \/ AuthProvider_logout_resumes(i)
    \/ DashboardPage_fetchCompanies_resumes(i)

LoginSettles(i) ==
    \E cred \in Users \cup {"bad"} : \E resp \in LoginResponses(cred) :
        AuthProvider_login_afterApiLogin(i, resp)

NextAuth ==
    \/ \E cred \in Users \cup {"bad"} : LoginPage_handleSubmit(cred)
    \/ \E i \in 1..MaxCalls : LoginSettles(i)
    \/ \E i \in 1..MaxCalls : Settle(i)
    \/ \E i \in 1..MaxCalls : AuthProvider_loadUser_resumes(i)
    \/ \E i \in 1..MaxCalls : AuthProvider_login_resumes(i)
    \/ AuthProvider_logout
    \/ \E i \in 1..MaxCalls : AuthProvider_logout_resumes(i)
    \/ DashboardPage_fetchCompanies
    \/ \E i \in 1..MaxCalls : DashboardPage_fetchCompanies_resumes(i)
    \/ \E itemId \in navItems("group_admin") : handleNavItemClick(itemId)
    \/ PageReload

SpecAuth == InitAuth /\ [][NextAuth]_vars

\* every request settles, every settled promise resumes its awaiter, and an
\* assigned location is followed
SpecAuthFair ==
    /\ SpecAuth
    /\ \A i \in 1..MaxCalls :
            WF_vars(LoginSettles(i)) /\ WF_vars(Settle(i)) /\ WF_vars(Resume(i))
    /\ WF_vars(PageReload)

----------------------------------------------------------------------------
(* Authentication claims *)

\* C6: the route '/' shows DashboardPage only while AuthContext's user is
\* non-null; with a null user the location is /login.
C6_DashboardOnlyForUser ==
    /\ route = "/" => user # NULL
    /\ user = NULL => route = "/login"

\* login returned true and navigated to '/' although loadUser had failed:
\* PrivateRoute sent the location back to /login
C6_Witness ==
    /\ lastDone = [kind |-> "login", outcome |-> "true"]
    /\ user = NULL /\ route = "/login"

\* C7: a user whose role is not 'group_admin' never has the User Management
\* or Company Management screen rendered, and their active navigation item
\* is always 'dashboard'.
C7_ManagementOnlyForAdmin ==
    (DashboardMounted /\ RoleOf(user) # "group_admin") =>
        /\ MainContent(activeNavItem, RoleOf(user))
                \notin {"UserManagement", "CompanyManagement"}
        /\ activeNavItem = "dashboard"

\* the awaiter in slot i resumed in this step
Resumes(i, kinds) ==
    /\ calls[i].kind \in kinds /\ calls[i].result # Pending
    /\ calls'[i] = Idle
    /\ ~Reloading

\* C8: after logout completes the stored token is removed, user is null and
\* the route is /login, whether the backend logout call resolved or rejected.
C8_LogoutAlwaysSignsOut ==
    [][ \A i \in 1..MaxCalls : Resumes(i, {"logout"}) =>
            token' = NULL /\ user' = NULL /\ route' = "/login" ]_vars

\* a logout whose backend call was rejected has completed
C8_Witness ==
    /\ lastDone = [kind |-> "logout", outcome |-> "reject"]
    /\ token = NULL /\ user = NULL /\ route = "/login"

\* authenticatedFetch ran its code after the await for the call in slot i
FetchSettles(i) == calls[i].result = Pending /\ calls'[i].result # Pending

\* C9 as stated: on a 401 the token is removed, the browser is sent to /login
\* and the call rejects; on any other non-ok response it rejects and the
\* token is unchanged; on an ok response it resolves with the body and the
\* token is unchanged.
C9_Original ==
    [][ \A i \in 1..MaxCalls : FetchSettles(i) =>
            LET resp == calls'[i].resp
                r == calls'[i].result
            IN  CASE resp.status = 401 ->
                        r.kind = "reject" /\ token' = NULL /\ navPending'
                  [] resp.status # 401 /\ ~ok(resp) ->
                        /\ r.kind = "reject"
                        /\ token' = token /\ navPending' = navPending
                  [] ok(resp) ->
                        /\ r.kind = "resolve" /\ r.value = resp.body
                        /\ token' = token /\ navPending' = navPending ]_vars

\* C9 amended: an ok response resolves with the body when the body parses as
\* JSON, and rejects when it does not; the token is unchanged in both cases.
C9_FetchOutcomes ==
    [][ \A i \in 1..MaxCalls : FetchSettles(i) =>
            LET resp == calls'[i].resp
                r == calls'[i].result
            IN  CASE resp.status = 401 ->
                        r.kind = "reject" /\ token' = NULL /\ navPending'
                  [] resp.status # 401 /\ ~ok(resp) ->
                        /\ r.kind = "reject"
                        /\ token' = token /\ navPending' = navPending
                  [] ok(resp) ->
                        /\ IF resp.json
                           THEN r.kind = "resolve" /\ r.value = resp.body
                           ELSE r.kind = "reject"
                        /\ token' = token /\ navPending' = navPending ]_vars

\* a call made with a stored token was answered 401: it is rejected, the
\* token is gone and the browser is on its way to /login
C9_Witness ==
    \E i \in 1..MaxCalls :
        /\ calls[i].arg \in Tokens
        /\ calls[i].resp.status = 401 /\ calls[i].result.kind = "reject"
        /\ token = NULL /\ navPending

\* fetching the current user failed: no ok response with a JSON body
FetchFailed(resp) == ~(ok(resp) /\ resp.json)

\* C10: when loadUser resumes after a failed fetch of the current user the
\* token is removed and user is null, after a successful one user is the
\* returned user; with no stored token user stays null; loading becomes
\* false in every case and, while the page lives, never true again.
C10_LoadUser ==
    /\ [][ \A i \in 1..MaxCalls : Resumes(i, {"loadUser", "login.loadUser"}) =>
            /\ IF FetchFailed(calls[i].resp)
               THEN token' = NULL /\ user' = NULL
               ELSE user' = calls[i].resp.body.username
            /\ ~authLoading' ]_vars
    /\ [][ (~authLoading /\ ~Reloading) => ~authLoading' ]_vars
    /\ []( (lastDone.kind = "mount" /\ \A i \in 1..MaxCalls : calls[i].kind # "loadUser")
                => (user = NULL /\ ~authLoading) )
    /\ authLoading ~> ~authLoading

\* the token stored by an earlier session was refused: loadUser removed it,
\* left user null and ended loading
C10_Witness ==
    /\ lastDone = [kind |-> "loadUser", outcome |-> "reject"]
    /\ token = NULL /\ user = NULL /\ ~authLoading

----------------------------------------------------------------------------
(* The backend's company records.  The backend is not part of the frontend  *)
(* sources: it is a CRUD store that keeps what the admin forms submit, the   *)
(* companies listed by GET /companies.                                      *)

\* the companies that exist in a company list
Existing(cs) == {c \in Companies : cs[c] # "absent"}

\* the parent link a request carries: '' and null mean no parent
ParentOf(p) == IF Falsy(p) THEN NULL ELSE p

\* the order in which the backend hands out ids
CompanyOrder == <<"c1", "c2">>

FirstFree(s) ==
    CompanyOrder[CHOOSE i \in DOMAIN CompanyOrder :
                    /\ CompanyOrder[i] \notin Existing(s)
                    /\ \A j \in 1..(i - 1) : CompanyOrder[j] \in Existing(s)]

\* can the backend carry out request r on the records s
Accepts(s, r) ==
    CASE r.kind = "get" -> TRUE
      [] r.kind = "add" ->
            /\ Existing(s) # Companies
            /\ ParentOf(r.parent) \in Existing(s) \cup {NULL}
      [] r.kind = "update" ->
            /\ r.id \in Existing(s)
            /\ ParentOf(r.parent) \in Existing(s) \cup {NULL}
      [] r.kind = "delete" -> r.id \in Existing(s)
      [] OTHER -> FALSE

\* the records after the backend carried out request r; a deleted company
\* leaves its subsidiaries without parent
Applied(s, r) ==
    CASE r.kind = "add" -> [s EXCEPT ![FirstFree(s)] = ParentOf(r.parent)]
      [] r.kind = "update" -> [s EXCEPT ![r.id] = ParentOf(r.parent)]
      [] r.kind = "delete" ->
            [c \in Companies |->
                IF c = r.id THEN "absent"
                ELSE IF s[c] = r.id THEN NULL ELSE s[c]]
      [] OTHER -> s

\* the answers to request r while the records are s
CompanyResponses(s, r) ==
    { IF Accepts(s, r)
      THEN Resp(200, [companies |-> Applied(s, r)])
      ELSE Resp(400, [msg |-> "Invalid company"]),
      Resp(500, [error |-> "E1"]),
      SessionExpiredResponse }

----------------------------------------------------------------------------
(* CompanyManagement, in its two sources: the one that asks window.confirm  *)
(* before deleting and the one that asks in a modal of its own              *)

MaxCompanyReqs == 1

CompanyReq(kind, id, parent) == [kind |-> kind, id |-> id, parent |-> parent]

GetCompanies == CompanyReq("get", NULL, NULL)

\* DashboardPage renders <CompanyManagement /> in <main>
CompanyManagementMounted ==
    /\ DashboardMounted /\ ~authLoading
    /\ MainContent(activeNavItem, RoleOf(user)) = "CompanyManagement"

\* the table and the modals are rendered: neither the loading nor the error
\* return is taken
TableRendered == CompanyManagementMounted /\ ~cm.loading /\ cm.error = NULL

AddModalShown == TableRendered /\ cm.showAddModal
EditModalShown == TableRendered /\ cm.showEditModal /\ cm.currentCompany # NoCompany
ConfirmDeleteModalShown == TableRendered /\ cm.showConfirmDeleteModal

\* the buttons of the table can be clicked: no modal covers them
TableClickable ==
    /\ TableRendered
    /\ ~cm.showAddModal /\ ~cm.showConfirmDeleteModal
    /\ ~(cm.showEditModal /\ cm.currentCompany # NoCompany)

CanRequest == Len(cmReqs) < MaxCompanyReqs

\* the parents the <select> of the shown modal offers
ParentOptions ==
    IF EditModalShown
    THEN {""} \cup {c \in Existing(cm.companies) : c # cm.currentCompany.id}
    ELSE {""} \cup Existing(cm.companies)

\* the 'Add New Company' button
CompanyManagement_openAddModal ==
    /\ TableClickable
    /\ cm' = [cm EXCEPT !.showAddModal = TRUE]
    /\ UNCHANGED <<fcVars, authVars, dashVars, uploadVars, ci, chatVars, cmImpl, cmReqs,
                   store, cmLast>>

\* handleChange of the parent <select> of the modal that is shown
CompanyManagement_handleChange(value) ==
    /\ AddModalShown \/ EditModalShown
    /\ value \in ParentOptions
    /\ value # cm.formData.parent_company_id
    /\ cm' = [cm EXCEPT !.formData.parent_company_id = value]
    /\ UNCHANGED <<fcVars, authVars, dashVars, uploadVars, ci, chatVars, cmImpl, cmReqs,
                   store, cmLast>>

\* handleAddCompany up to its await
CompanyManagement_handleAddCompany ==
    /\ AddModalShown /\ CanRequest
    /\ cmReqs' = Append(cmReqs,
                    CompanyReq("add", NULL, cm.formData.parent_company_id))
    /\ UNCHANGED <<fcVars, authVars, dashVars, uploadVars, ci, chatVars, cmImpl, cm,
                   store, cmLast>>

\* openEditModal; in the confirmModal source the setter of showEditModal is
\* named setShowEdit, so the call of setShowEditModal throws after the two
\* other updates were queued
CompanyManagement_openEditModal(c) ==
    /\ TableClickable
    /\ c \in Existing(cm.companies)
    /\ cm' = [cm EXCEPT
                !.currentCompany = [id |-> c, parent_company_id |-> cm.companies[c]],
                !.formData = [emptyForm EXCEPT
                                !.name = c,
                                !.parent_company_id = Or(cm.companies[c], "")],
                !.showEditModal = IF cmImpl = "windowConfirm" THEN TRUE ELSE @]
    /\ cm' # cm
    /\ UNCHANGED <<fcVars, authVars, dashVars, uploadVars, ci, chatVars, cmImpl, cmReqs,
                   store, cmLast>>

\* handleEditCompany up to its await
CompanyManagement_handleEditCompany ==
    /\ EditModalShown /\ CanRequest
    /\ cmReqs' = Append(cmReqs,
                    CompanyReq("update", cm.currentCompany.id,
                               Or(cm.formData.parent_company_id, NULL)))
    /\ UNCHANGED <<fcVars, authVars, dashVars, uploadVars, ci, chatVars, cmImpl, cm,
                   store, cmLast>>

\* closeModal of the confirmModal source: setShowEditModal is not defined, so
\* the function throws after setShowAddModal(false)
closeModal(s) == [s EXCEPT !.showAddModal = FALSE]

\* the Cancel button of the add or the edit modal
CompanyManagement_cancelModal ==
    /\ AddModalShown \/ EditModalShown
    /\ cm' = IF cmImpl = "confirmModal" THEN closeModal(cm)
             ELSE IF AddModalShown
             THEN [cm EXCEPT !.showAddModal = FALSE, !.formData = emptyForm,
                             !.error = NULL]
             ELSE [cm EXCEPT !.showEditModal = FALSE, !.currentCompany = NoCompany,
                             !.formData = emptyForm, !.error = NULL]
    /\ cm' # cm
    /\ UNCHANGED <<fcVars, authVars, dashVars, uploadVars, ci, chatVars, cmImpl, cmReqs,
                   store, cmLast>>

\* a handleDeleteCompany that does not ask
DeleteConfirmed_unasked(answer) == TRUE

\* if (window.confirm(...)): the user pressed OK
DeleteConfirmed(answer) == answer = "ok"

\* the Delete button of a row in the windowConfirm source: handleDeleteCompany
\* up to its await, window.confirm being answered at once
CompanyManagement_handleDeleteCompany(companyId_, answer) ==
    /\ cmImpl = "windowConfirm"
    /\ TableClickable
    /\ companyId_ \in Existing(cm.companies)
    /\ cmLast' = [clicked |-> companyId_,
                  answer |-> IF answer = "ok" THEN "confirm" ELSE "cancel"]
    /\ IF DeleteConfirmed(answer)
       THEN /\ CanRequest
            /\ cmReqs' = Append(cmReqs, CompanyReq("delete", companyId_, NULL))
       ELSE UNCHANGED cmReqs
    /\ UNCHANGED <<fcVars, authVars, dashVars, uploadVars, ci, chatVars, cmImpl, cm, store>>

\* the Delete button of a row in the confirmModal source
CompanyManagement_confirmDeleteCompany(companyId_) ==
    /\ cmImpl = "confirmModal"
    /\ TableClickable
    /\ companyId_ \in Existing(cm.companies)
    /\ cm' = [cm EXCEPT !.companyToDelete = companyId_,
                        !.showConfirmDeleteModal = TRUE]
    /\ cmLast' = [clicked |-> companyId_, answer |-> "none"]
    /\ UNCHANGED <<fcVars, authVars, dashVars, uploadVars, ci, chatVars, cmImpl, cmReqs,
                   store>>

\* the Delete button of the confirmation modal: handleDeleteCompany of the
\* confirmModal source up to its await
CompanyManagement_handleDeleteCompany_modal ==
    /\ cmImpl = "confirmModal"
    /\ ConfirmDeleteModalShown
    /\ cm.companyToDelete # NULL
    /\ CanRequest
    /\ cmReqs' = Append(cmReqs, CompanyReq("delete", cm.companyToDelete, NULL))
    /\ cmLast' = [cmLast EXCEPT !.answer = "confirm"]
    /\ UNCHANGED <<fcVars, authVars, dashVars, uploadVars, ci, chatVars, cmImpl, cm, store>>

\* the Cancel button of the confirmation modal
CompanyManagement_cancelDelete ==
    /\ cmImpl = "confirmModal"
    /\ ConfirmDeleteModalShown
    /\ cm' = closeModal(cm)
    /\ cmLast' = [cmLast EXCEPT !.answer = "cancel"]
    /\ cmLast' # cmLast
    /\ UNCHANGED <<fcVars, authVars, dashVars, uploadVars, ci, chatVars, cmImpl, cmReqs,
                   store>>

\* fetchCompanies up to its await
fetchCompanies_start(s) == [s EXCEPT !.loading = TRUE, !.error = NULL]

\* the component after the handler that awaited request r resumed with res;
\* refetch says whether the handler went on to call fetchCompanies
CompanyManagement_after(s, r, res) ==
    CASE r.kind = "get" ->
            [refetch |-> FALSE,
             cm |-> IF res.kind = "resolve"
                    THEN [s EXCEPT !.companies = res.value.companies,
                                   !.loading = FALSE]
                    ELSE [s EXCEPT !.error = Or(res.value.message,
                                                "Failed to load companies."),
                                   !.loading = FALSE]]
      [] res.kind = "reject" ->
            [refetch |-> FALSE,
             cm |-> [s EXCEPT !.error = Or(res.value.message, "Failed.")]]
      [] r.kind = "add" ->
            [refetch |-> TRUE,
             cm |-> fetchCompanies_start(
                        [s EXCEPT !.showAddModal = FALSE, !.formData = emptyForm])]
      [] r.kind = "update" /\ cmImpl = "windowConfirm" ->
            [refetch |-> TRUE,
             cm |-> fetchCompanies_start(
                        [s EXCEPT !.showEditModal = FALSE, !.currentCompany = NoCompany,
                                  !.formData = emptyForm])]
      [] r.kind = "update" /\ cmImpl = "confirmModal" ->
            [refetch |-> FALSE,
             cm |-> [s EXCEPT !.error = "setShowEditModal is not defined"]]
      [] r.kind = "delete" /\ cmImpl = "windowConfirm" ->
            [refetch |-> TRUE, cm |-> fetchCompanies_start(s)]
      [] r.kind = "delete" /\ cmImpl = "confirmModal" ->
            [refetch |-> TRUE,
             cm |-> fetchCompanies_start(
                        [s EXCEPT !.showConfirmDeleteModal = FALSE,
                                  !.companyToDelete = NULL])]

RemoveAt(seq, i) == SubSeq(seq, 1, i - 1) \o SubSeq(seq, i + 1, Len(seq))

\* the request at position i is answered: the backend carries it out when it
\* answers ok, authenticatedFetch settles and the handler that awaits resumes
CompanyManagement_settles(i, resp) ==
    /\ i \in DOMAIN cmReqs
    /\ resp \in CompanyResponses(store, cmReqs[i])
    /\ LET r == cmReqs[i]
           res == authenticatedFetch(resp)
           a == CompanyManagement_after(cm, r, res)
       IN  /\ store' = IF ok(resp) THEN Applied(store, r) ELSE store
           /\ token' = TokenAfter(res, token)
           /\ navPending' = (navPending \/ res.redirect)
           /\ cm' = a.cm
           /\ cmReqs' = IF a.refetch
                        THEN Append(RemoveAt(cmReqs, i), GetCompanies)
                        ELSE RemoveAt(cmReqs, i)
    /\ UNCHANGED <<fcVars, user, authLoading, route, calls, lastDone, dashVars,
                   uploadVars, ci, chatVars, cmImpl, cmLast>>

\* the admin has opened Company Management: the component mounted and its
\* effect called fetchCompanies
InitCompany ==
    /\ cmImpl \in {"windowConfirm", "confirmModal"}
    /\ chatImpl = "handleSend"
    /\ token = TokenOf("admin") /\ user = "admin" /\ authLoading = FALSE
    /\ route = "/" /\ navPending = FALSE /\ calls = noCalls
    /\ lastDone = [kind |-> "login", outcome |-> "resolve"]
    /\ activeNavItem = "company-management" /\ companyId = NULL
    /\ bsu = bsuInit /\ bsuReq = NoReq /\ ci = ciInit /\ ciReq = NoReq
    /\ chatReqs = {} /\ nextReq = 0
    /\ lastUpload = NoUpload /\ lastChat = NoChat
    /\ cm = cmInit
    /\ cmReqs = <<GetCompanies>>
    /\ store \in {noCompanies, [noCompanies EXCEPT !["c1"] = NULL]}
    /\ cmLast = NoDelete
    /\ FinancialChartsIdle

NextCompany ==
    \/ CompanyManagement_openAddModal
    \/ \E value \in Companies \cup {""} : CompanyManagement_handleChange(value)
    \/ CompanyManagement_handleAddCompany
    \/ \E c \in Companies : CompanyManagement_openEditModal(c)
    \/ CompanyManagement_handleEditCompany
    \/ CompanyManagement_cancelModal
    \/ \E c \in Companies : \E answer \in {"ok", "cancel"} :
            CompanyManagement_handleDeleteCompany(c, answer)
    \/ \E c \in Companies : CompanyManagement_confirmDeleteCompany(c)
    \/ CompanyManagement_handleDeleteCompany_modal
    \/ CompanyManagement_cancelDelete
    \/ \E i \in 1..MaxCompanyReqs : \E resp \in
            {Resp(200, [companies |-> s]) :
                s \in [Companies -> Companies \cup {NULL, "absent"}]}
            \cup {Resp(400, [msg |-> "Invalid company"]),
                  Resp(500, [error |-> "E1"]), SessionExpiredResponse} :
            CompanyManagement_settles(i, resp)
    \/ PageReload

SpecCompany == InitCompany /\ [][NextCompany]_vars

----------------------------------------------------------------------------
(* Company claims *)

\* the companies reached from c by following parent_company_id at least once
RECURSIVE Ancestors(_, _, _)
Ancestors(s, c, n) ==
    IF n = 0 \/ s[c] \notin Companies THEN {}
    ELSE {s[c]} \cup Ancestors(s, s[c], n - 1)

NewDeleteCall ==
    /\ Len(cmReqs') = Len(cmReqs) + 1
    /\ cmReqs'[Len(cmReqs')].kind = "delete"

\* a step in which the user cancelled the confirmation
CancelsDelete == cmLast' # cmLast /\ cmLast'.answer = "cancel"

\* C12: apiDeleteCompany is called only after the user confirmed, and only
\* with the id of the company whose Delete button was clicked last;
\* cancelling the confirmation makes no delete call and leaves the company
\* list unchanged.
C12_DeleteOnlyAfterConfirmation ==
    /\ [][ NewDeleteCall =>
            /\ cmLast'.answer = "confirm"
            /\ cmReqs'[Len(cmReqs')].id = cmLast'.clicked ]_vars
    /\ [][ CancelsDelete =>
            /\ cmReqs' = cmReqs
            /\ cm'.companies = cm.companies
            /\ store' = store ]_vars

\* a confirmed delete was carried out and the refreshed list no longer has
\* the company
C12_Witness ==
    /\ cmLast.answer = "confirm"
    /\ cmLast.clicked \notin Existing(store)
    /\ cmLast.clicked \notin Existing(cm.companies)
    /\ ~cm.loading /\ cm.error = NULL

----------------------------------------------------------------------------
(* Chat claims about the selected company *)

\* the selected company changed in this step and the components stay mounted
CompanyChanges == companyId' # companyId /\ ComponentsMounted /\ ~Reloading

C16_NoReplyAcrossCompanies ==
    [][ \A q \in chatReqs \ chatReqs' :
            ~Reloading => q.company = companyId ]_vars

----------------------------------------------------------------------------
(* The backend's Fact Store.  The backend is not part of the frontend       *)
(* sources; its upsert and read contracts are those of the specification.   *)

Years == {2022, 2023}

\* the metrics of a company_metrics response, in their fixed order
MetricFields == <<"revenue", "netIncome", "assets", "liabilities">>

Cell(y, metric, v) == [year |-> y, metric |-> metric, value |-> v]

\* the facts extracted from the uploaded files: a second file restates the
\* 2023 revenue, a third has a cell that does not parse as a number
Batches ==
    { {Cell(2023, "revenue", "100"), Cell(2023, "assets", "500")},
      {Cell(2023, "revenue", "200"), Cell(2022, "revenue", "90")},
      {Cell(2022, "netIncome", NULL)} }

KeyOf(r) == <<r.year, r.metric>>

\* an upsert that inserts without replacing
Upsert_insertOnly(rows, c, cells) ==
    rows \cup {[company |-> c, year |-> x.year, metric |-> x.metric,
                value |-> x.value] : x \in cells}

\* upsert: a written (company, year, metric) replaces the row of that key
Upsert(rows, c, cells) ==
    {r \in rows : ~(r.company = c /\ \E x \in cells : KeyOf(x) = KeyOf(r))}
        \cup {[company |-> c, year |-> x.year, metric |-> x.metric,
               value |-> x.value] : x \in cells}

\* a set of years as an ascending sequence
RECURSIVE Ascending(_)
Ascending(ys) ==
    IF ys = {} THEN <<>>
    ELSE LET least == CHOOSE y \in ys : \A z \in ys : y <= z
         IN  <<least>> \o Ascending(ys \ {least})

\* the stored value of a key, null when the key has no row
ValueAt(rows, c, y, metric) ==
    IF \E r \in rows : r.company = c /\ r.year = y /\ r.metric = metric
    THEN (CHOOSE r \in rows : r.company = c /\ r.year = y /\ r.metric = metric).value
    ELSE NULL

\* read: all known years of the company ascending, one array per metric
Read(rows, c) ==
    LET years == Ascending({r.year : r \in {q \in rows : q.company = c}})
        series(metric) == [i \in 1..Len(years) |-> ValueAt(rows, c, years[i], metric)]
    IN  [company_id |-> c, years |-> years, currency |-> "INR",
         revenue |-> series("revenue"), netIncome |-> series("netIncome"),
         assets |-> series("assets"), liabilities |-> series("liabilities")]

\* the Fact Store commits the batch extracted from an upload for company c
FactStore_write(c, cells) ==
    /\ facts' = Upsert(facts, c, cells)
    /\ lastBatch' = [company |-> c, cells |-> cells]
    /\ lastBatch' # lastBatch
    /\ UNCHANGED <<authVars, dashVars, uploadVars, ci, chatVars, cmVars, fcImpl,
                   fc, fcReqs>>

\* the answers to GET /company_metrics/<c>
MetricsResponses(rows, c) ==
    {Resp(200, Read(rows, c)), Resp(500, [error |-> "E1"]), NetworkError,
     SessionExpiredResponse}

----------------------------------------------------------------------------
(* FinancialCharts, in its three sources: the one that draws with recharts, *)
(* the one with renderSimpleChart and the one that draws with chart.js      *)

MaxFetches == 2

\* fetchCompanyMetrics up to its await (in the chartjs source: the effect up
\* to the call of apiGetCompanyMetrics), for a companyId that is not null
FinancialCharts_fetchStart(s) ==
    IF fcImpl = "chartjs"
    THEN [metrics |-> NoMetrics, loading |-> TRUE, error |-> NULL]
    ELSE [s EXCEPT !.loading = TRUE, !.error = NULL]

\* the effect on [companyId] when DashboardPage passes another company
FinancialCharts_companyIdEffect(id) ==
    /\ Len(fcReqs) < MaxFetches
    /\ fc' = FinancialCharts_fetchStart(fc)
    /\ fcReqs' = Append(fcReqs, id)
    /\ UNCHANGED <<fcImpl, facts, lastBatch>>

\* the component after the call settled with res
FinancialCharts_afterFetch(s, res) ==
    IF fcImpl = "chartjs"
    THEN IF res.kind = "resolve"
         THEN IF Len(res.value.years) = 0
              THEN [metrics |-> NoMetrics, loading |-> FALSE,
                    error |-> "No financial data available for this company."]
              ELSE [s EXCEPT !.metrics = res.value, !.loading = FALSE]
         ELSE [s EXCEPT !.error = Or(res.value.message,
                                     "Failed to load financial data."),
                        !.loading = FALSE]
    ELSE IF res.kind = "resolve"
         THEN [s EXCEPT !.metrics = res.value, !.loading = FALSE]
         ELSE [metrics |-> NoMetrics, loading |-> FALSE,
               error |-> Or(res.value.message,
                            "Failed to load financial data for charts.")]

\* the metrics request at position i is answered
FinancialCharts_fetchSettles(i, resp) ==
    /\ i \in DOMAIN fcReqs
    /\ resp \in MetricsResponses(facts, fcReqs[i])
    /\ LET res == authenticatedFetch(resp) IN
        /\ fc' = FinancialCharts_afterFetch(fc, res)
        /\ token' = TokenAfter(res, token)
        /\ navPending' = (navPending \/ res.redirect)
    /\ fcReqs' = RemoveAt(fcReqs, i)
    /\ UNCHANGED <<user, authLoading, route, calls, lastDone, dashVars,
                   uploadVars, ci, chatVars, cmVars, fcImpl, facts, lastBatch>>

\* the charts are drawn: none of the loading, error and no-data returns is taken
ChartsDrawn ==
    /\ ComponentsMounted
    /\ ~fc.loading /\ fc.error = NULL
    /\ fc.metrics # NoMetrics /\ Len(fc.metrics.years) > 0

Reverse(seq) == [i \in 1..Len(seq) |-> seq[Len(seq) + 1 - i]]

\* the points of the chart of one metric, in the order they are drawn
Chart(metrics, field) ==
    LET points == [i \in 1..Len(metrics.years) |->
                    [year |-> metrics.years[i], value |-> metrics[field][i]]]
    IN  CASE fcImpl = "recharts" -> Reverse(points)
          [] fcImpl = "simpleChart" ->
                IF \A i \in DOMAIN points : points[i].value = NULL
                THEN <<>> ELSE points
          [] OTHER -> points

\* a signed-in user on the dashboard: FinancialCharts mounted with the
\* selected company and its effect started the first fetch
InitCharts ==
    /\ chatImpl = "handleSend"
    /\ token = TokenOf("admin") /\ user = "admin" /\ authLoading = FALSE
    /\ route = "/" /\ navPending = FALSE /\ calls = noCalls
    /\ lastDone = [kind |-> "login", outcome |-> "resolve"]
    /\ activeNavItem = "dashboard" /\ companyId = "c1"
    /\ bsu = bsuInit /\ bsuReq = NoReq /\ ci = ciInit /\ ciReq = NoReq
    /\ chatReqs = {} /\ nextReq = 0
    /\ lastUpload = NoUpload /\ lastChat = NoChat
    /\ CompanyManagementClosed
    /\ fcImpl \in {"recharts", "simpleChart", "chartjs"}
    /\ fc = [metrics |-> NoMetrics, loading |-> TRUE, error |-> NULL]
    /\ fcReqs = <<"c1">>
    /\ facts = {}
    /\ lastBatch = NoBatch

NextCharts ==
    \/ \E id \in Companies :
            handleCompanyChange(id) /\ FinancialCharts_companyIdEffect(id)
    \/ \E i \in 1..MaxFetches :
            \E resp \in UNION {MetricsResponses(facts, c) : c \in Companies} :
                FinancialCharts_fetchSettles(i, resp)
    \/ \E c \in Companies : \E cells \in Batches : FactStore_write(c, cells)
    \/ PageReload

SpecCharts == InitCharts /\ [][NextCharts]_vars

----------------------------------------------------------------------------
(* Claims about the financial series *)

\* C14: every chart that is drawn shows the years in ascending order, with
\* value i of the metric at year i, and shows every year of the series, a
\* year without a value for the metric included.
C14_SeriesAscendingAndComplete ==
    ChartsDrawn =>
        \A k \in DOMAIN MetricFields :
            LET m == fc.metrics
                ch == Chart(m, MetricFields[k])
            IN  /\ \A i, j \in DOMAIN ch : i < j => ch[i].year < ch[j].year
                /\ {ch[i].year : i \in DOMAIN ch} = Range(m.years)
                /\ \A i \in DOMAIN ch : \E n \in DOMAIN m.years :
                        /\ m.years[n] = ch[i].year
                        /\ m[MetricFields[k]][n] = ch[i].value

\* a Fact Store write happened in this step
Writes == lastBatch' # lastBatch

\* C15: a write replaces the value of exactly the keys it writes and leaves
\* every other stored value unchanged; every key holds at most one value,
\* that of the latest write of the key.
C15_UpsertLastWriteWins ==
    /\ [](\A r, q \in facts :
            (r.company = q.company /\ KeyOf(r) = KeyOf(q)) => r = q)
    /\ [][ Writes =>
            LET c == lastBatch'.company
                cells == lastBatch'.cells
                written(r) == r.company = c /\ \E x \in cells : KeyOf(x) = KeyOf(r)
            IN  /\ \A x \in cells :
                    [company |-> c, year |-> x.year, metric |-> x.metric,
                     value |-> x.value] \in facts'
                /\ {r \in facts' : ~written(r)} = {r \in facts : ~written(r)} ]_vars

\* the 2023 revenue of c1 was written twice and holds the later value, next
\* to the 2023 assets of the first upload
C15_Witness ==
    /\ lastBatch = [company |-> "c1",
                    cells |-> {Cell(2023, "revenue", "200"), Cell(2022, "revenue", "90")}]
    /\ ValueAt(facts, "c1", 2023, "revenue") = "200"
    /\ ValueAt(facts, "c1", 2023, "assets") = "500"

\* C17: whenever loading is false and metrics is non-null, metrics is the
\* response to the fetch issued for the current companyId.
C17_ChartsOfSelectedCompany ==
    (ComponentsMounted /\ ~fc.loading /\ fc.metrics # NoMetrics) =>
        fc.metrics.company_id = companyId

----------------------------------------------------------------------------
(* More authentication claims *)

\* login resolved true in this step, for the call in slot i
LoginResolves(i) == Resumes(i, {"login.loadUser"})

\* C18: login resolves true only when user has been set to the authenticated
\* user; when fetching the current user fails after the credentials were
\* accepted, login does not resolve true and no token remains stored.
C18_LoginSuccessMeansUser ==
    [][ \A i \in 1..MaxCalls : LoginResolves(i) =>
            /\ lastDone'.outcome = "true" => user' = UserOf(calls[i].arg)
            /\ FetchFailed(calls[i].resp) =>
                    /\ lastDone' # [kind |-> "login", outcome |-> "true"]
                    /\ token' = NULL ]_vars

\* C19: in every reachable state a non-null user implies that a token is
\* stored, across any interleaving of loadUser, login, logout and
\* authenticated calls that may be answered 401.
C19_UserImpliesToken == user # NULL => token # NULL

\* C20: when the application was loaded at '/' with a valid token stored,
\* the dashboard is shown once loadUser has completed.
C20_ValidTokenShowsDashboard ==
    [][ \A i \in 1..MaxCalls :
            ( /\ Resumes(i, {"loadUser"})
              /\ lastDone = MountAt("/")
              /\ ~FetchFailed(calls[i].resp) )
            => (user' # NULL /\ route' = "/") ]_vars

====
